---- MODULE Spec2Model ----
(***************************************************************************)
(* Attendance backend (employee_control.py) and the standalone login       *)
(* handler (myapp/__init__.py).                                            *)
(*                                                                         *)
(* Strings are sequences of one-character strings.  JSON values are        *)
(* records [t, v] with t the JSON type.  The SQLite store is two tables    *)
(* (sequences of rows in rowid order), their AUTOINCREMENT counters and    *)
(* the database write lock.  Every request is served by a worker; a        *)
(* worker's handler is split at its SQL statements, the only places where  *)
(* another request can interleave.                                         *)
(***************************************************************************)
EXTENDS Integers, Sequences, FiniteSets, TLC

VARIABLES employees, time_entries, seq_employees, seq_time_entries,
          lock, clock, workers, out

vars == <<employees, time_entries, seq_employees, seq_time_entries,
          lock, clock, workers, out>>

(* ------------------------------ bounds -------------------------------- *)
NWorkers == 2
MaxEmployees == 2
MaxEntries == 2
MaxClock == 1

Workers == 1..NWorkers

(* ------------------------------ strings ------------------------------- *)
(* A JSON list is represented by its length only. *)
JStr(s) == [t |-> "str", v |-> s]
JInt(n) == [t |-> "int", v |-> n]
JList(n) == [t |-> "list", v |-> n]
Null == [t |-> "null", v |-> 0]
Absent == [t |-> "absent", v |-> 0]

UpperChars == <<"A","B","C","D","E","F","G","H","I","J","K","L","M",
                "N","O","P","Q","R","S","T","U","V","W","X","Y","Z">>
LowerChars == <<"a","b","c","d","e","f","g","h","i","j","k","l","m",
                "n","o","p","q","r","s","t","u","v","w","x","y","z">>
Digits == <<"0","1","2","3","4","5","6","7","8","9">>

IsSpace(c) == c \in {" ", "\t", "\n", "\r"}

LowerChar(c) ==
  IF \E i \in 1..26 : UpperChars[i] = c
  THEN LowerChars[CHOOSE i \in 1..26 : UpperChars[i] = c]
  ELSE c

lower(s) == [i \in 1..Len(s) |-> LowerChar(s[i])]

RECURSIVE lstrip(_)
lstrip(s) == IF s # <<>> /\ IsSpace(Head(s)) THEN lstrip(Tail(s)) ELSE s

RECURSIVE rstrip(_)
rstrip(s) ==
  IF s # <<>> /\ IsSpace(s[Len(s)]) THEN rstrip(SubSeq(s, 1, Len(s) - 1)) ELSE s

strip(s) == rstrip(lstrip(s))

startswith(s, p) == Len(p) <= Len(s) /\ SubSeq(s, 1, Len(p)) = p

(* Python truthiness of a JSON value; dict.get of a missing key is None. *)
Truthy(x) ==
  CASE x.t = "absent" -> FALSE
    [] x.t = "null" -> FALSE
    [] x.t = "int" -> x.v # 0
    [] x.t = "str" -> x.v # <<>>
    [] x.t = "list" -> x.v > 0

(* `x or d` *)
Or(x, d) == IF Truthy(x) THEN x ELSE d

(* ASCII characters in code order (quotes, brackets, star and backslash   *)
(* left out); text compares bytewise (BINARY collation).                  *)
AsciiOrder ==
  <<" ","!","#","$","%","&","+",",","-",".","/",
    "0","1","2","3","4","5","6","7","8","9",":",";","<","=",">","?",
    "@","A","B","C","D","E","F","G","H","I","J","K","L","M","N","O",
    "P","Q","R","S","T","U","V","W","X","Y","Z","^","_",
    "a","b","c","d","e","f","g","h","i","j","k","l","m","n","o",
    "p","q","r","s","t","u","v","w","x","y","z","{","|","}","~">>

Ord(c) == CHOOSE i \in 1..Len(AsciiOrder) : AsciiOrder[i] = c

RECURSIVE TextLeq(_, _)
TextLeq(a, b) ==
  IF a = <<>> THEN TRUE
  ELSE IF b = <<>> THEN FALSE
  ELSE IF Head(a) = Head(b) THEN TextLeq(Tail(a), Tail(b))
  ELSE Ord(Head(a)) < Ord(Head(b))

(* ------------------------------ now_iso ------------------------------- *)
TickSeconds == 12 * 3600 + 34 * 60 + 56
Epoch == <<"2","0","2","4","-","0","1","-">>

TwoDigits(n) == <<Digits[(n \div 10) + 1], Digits[(n % 10) + 1]>>

(* The UTC time tick*TickSeconds seconds after 2024-01-01T00:00:00 (a    *)
(* time in January 2024), as isoformat(timespec="seconds") + "Z".         *)
now_iso(tick) ==
  LET secs == tick * TickSeconds
      day == (secs \div 86400) + 1
      hh == (secs % 86400) \div 3600
      mm == (secs % 3600) \div 60
      ss == secs % 60
  IN Epoch \o TwoDigits(day) \o <<"T">> \o TwoDigits(hh) \o <<":">>
       \o TwoDigits(mm) \o <<":">> \o TwoDigits(ss) \o <<"Z">>

(* ------------------------------ SQLite -------------------------------- *)
DigitVal(c) == (CHOOSE i \in 1..10 : Digits[i] = c) - 1
IsDigit(c) == \E i \in 1..10 : Digits[i] = c

RECURSIVE DigitsToInt(_)
DigitsToInt(s) ==
  IF s = <<>> THEN 0 ELSE 10 * DigitsToInt(SubSeq(s, 1, Len(s) - 1)) + DigitVal(s[Len(s)])

(* Text that NUMERIC affinity converts to an integer: optional blanks     *)
(* around an optionally signed run of digits.                              *)
IsIntText(s) ==
  LET b == strip(s)
      d == IF b # <<>> /\ Head(b) \in {"-", "+"} THEN Tail(b) ELSE b
  IN d # <<>> /\ \A i \in 1..Len(d) : IsDigit(d[i])

TextToInt(s) ==
  LET b == strip(s)
  IN IF Head(b) = "-" THEN 0 - DigitsToInt(Tail(b))
     ELSE IF Head(b) = "+" THEN DigitsToInt(Tail(b))
     ELSE DigitsToInt(b)

(* Whether the sqlite3 module can bind the value as a statement parameter. *)
Bindable(x) == x.t \in {"null", "int", "str"}

(* `intcol = ?` : the parameter compared with an INTEGER column.           *)
SqlEqInt(col, x) ==
  CASE x.t = "int" -> col = x.v
    [] x.t = "str" -> IsIntText(x.v) /\ col = TextToInt(x.v)
    [] OTHER -> FALSE

(* The value an INTEGER column stores for a parameter that matched an id. *)
SqlToInt(x) ==
  CASE x.t = "int" -> x.v
    [] x.t = "str" -> TextToInt(x.v)

(* `s LIKE p` : % matches any run, _ any one character, ASCII letters     *)
(* compare case-insensitively.                                             *)
RECURSIVE Like(_, _)
Like(s, p) ==
  IF p = <<>> THEN s = <<>>
  ELSE IF Head(p) = "%"
       THEN \E k \in 0..Len(s) : Like(SubSeq(s, k + 1, Len(s)), Tail(p))
  ELSE IF s = <<>> THEN FALSE
  ELSE /\ (Head(p) = "_" \/ LowerChar(Head(p)) = LowerChar(Head(s)))
       /\ Like(Tail(s), Tail(p))

(* ------------------------------ requests ------------------------------ *)
ADMIN_TOKEN == <<"s","e","c","r","e","t","-","a","d","m","i","n">>
ROLES == {<<"e","m","p","l","o","y","e","e">>, <<"m","a","n","a","g","e","r">>,
          <<"a","d","m","i","n">>}
EVENT_TYPES == {"CLOCK_IN", "CLOCK_OUT", "BREAK_START", "BREAK_END"}

(* A JSON object body: data.get(key) of a key it lacks is Absent.         *)
EmptyObject ==
  [name |-> Absent, role |-> Absent, employee_id |-> Absent,
   username |-> Absent, password |-> Absent]

(* request.get_json(silent=True) or {} : a missing or unparsable body is  *)
(* None, which `or {}` turns into the empty object.                       *)
get_json(payload) == IF payload.json THEN payload.object ELSE EmptyObject

NoJson == [json |-> FALSE, object |-> EmptyObject]
Json(obj) == [json |-> TRUE, object |-> obj]

Request(route, payload, token, employee_id, date) ==
  [route |-> route, payload |-> payload, token |-> token,
   employee_id |-> employee_id, date |-> date]

Post(route, payload) == Request(route, payload, Absent, Absent, Absent)
Get(route, token, employee_id, date) == Request(route, NoJson, token, employee_id, date)

NoRequest == Request("", NoJson, Absent, Absent, Absent)

Response(req, status, body) == [req |-> req, status |-> status, body |-> body]
NoResponse == Response(NoRequest, 0, <<>>)

Error(msg) == [error |-> msg]
Message(msg) == [message |-> msg]

(* ------------------------------ inputs -------------------------------- *)
Al == <<"A","l">>
NameValues ==
  {Absent, Null, JStr(<<>>), JStr(<<" ">>), JStr(Al), JStr(<<" ">> \o Al \o <<" ">>),
   JInt(7)}
RoleValues ==
  {Absent, JStr(<<>>), JStr(<<"a","d","m","i","n">>),
   JStr(<<"M","a","n","a","g","e","r">>), JStr(<<"b","o","s","s">>), JInt(5)}
TokenValues ==
  {Absent, JStr(<<>>), JStr(ADMIN_TOKEN), JStr(SubSeq(ADMIN_TOKEN, 1, 6)),
   JStr(ADMIN_TOKEN \o <<"1">>),
   JStr(<<"S">> \o Tail(ADMIN_TOKEN))}
Jan == <<"2","0","2","4","-","0","1","-","0">>
RegisterPayloads ==
  {NoJson} \cup {Json([EmptyObject EXCEPT !.name = n, !.role = r]) :
                   n \in NameValues, r \in RoleValues}

(* The inputs of the whole-system specification. *)
RegisterFew ==
  {NoJson, Json([EmptyObject EXCEPT !.name = JStr(<<" ">> \o Al \o <<" ">>)])}
EventFew ==
  {Json([EmptyObject EXCEPT !.employee_id = e]) :
     e \in {JInt(0), JInt(1), JInt(2), JStr(<<"1">>), JList(1)}}
TokenFew == {Absent, JStr(ADMIN_TOKEN), JStr(SubSeq(ADMIN_TOKEN, 1, 6))}
QueryIdFew == {Absent, JStr(<<"1">>)}
DateFew == {Absent, JStr(Jan \o <<"_">>)}

(* ------------------------------ workers ------------------------------- *)
Idle ==
  [pc |-> "idle", req |-> NoRequest, name |-> <<>>, role |-> <<>>,
   employee_id |-> Absent, rowid |-> 0, ts |-> <<>>]

EVENT_ROUTES == {"/clock-in", "/clock-out", "/break-start", "/break-end"}

Busy(route) == {w \in Workers : workers[w].pc # "idle" /\ workers[w].req.route = route}
BusyEvents == {w \in Workers : workers[w].pc # "idle" /\ workers[w].req.route \in EVENT_ROUTES}

(* A request is served by the first worker that is free.                  *)
Free(w) == workers[w].pc = "idle" /\ \A v \in Workers : v < w => workers[v].pc # "idle"

(* ------------------------------ init_db ------------------------------- *)
Init ==
  /\ employees = <<>>
  /\ time_entries = <<>>
  /\ seq_employees = 0
  /\ seq_time_entries = 0
  /\ lock = 0
  /\ clock = 0
  /\ workers = [w \in Workers |-> Idle]
  /\ out = NoResponse

Store == <<employees, time_entries, seq_employees, seq_time_entries, lock>>

Reply(req, status, body) == out' = Response(req, status, body)

(* Faulty variant: writers that do not wait for the write lock. *)
DbFreeAlways == TRUE

(* An INSERT takes the database write lock; a second writer waits for it. *)
DbFree == lock = 0

(* Faulty variant: INSERT OR REPLACE keyed on a rowid that is not advanced. *)
InsertOrReplace(table, row) ==
  IF table = <<>> THEN <<row>> ELSE [table EXCEPT ![Len(table)] = row]

(* INSERT INTO table ... : the row is added, every other row is kept.      *)
Insert(table, row) == Append(table, row)

(* ------------------------------ /register ----------------------------- *)
(* rowid of an INSERT into an AUTOINCREMENT table whose sqlite_sequence   *)
(* entry is seq.                                                          *)
NextRowid(seq) == seq + 1

(* Lines 71-83: the payload is validated and the row inserted; the INSERT *)
(* opens the write transaction, which line 85 commits.                    *)
RegisterInsert(w, payloads) ==
  /\ Free(w)
  /\ \E payload \in payloads :
       LET req == Post("/register", payload)
           data == get_json(payload)
           name_ == Or(data.name, JStr(<<>>))
           role_ == Or(data.role, JStr(<<"e","m","p","l","o","y","e","e">>))
       IN IF name_.t # "str" \/ role_.t # "str"
          THEN /\ Reply(req, 500, Error("AttributeError"))
               /\ UNCHANGED <<workers, lock>>
          ELSE LET name == strip(name_.v)
                   role == lower(strip(role_.v))
               IN IF name = <<>> \/ role \notin ROLES
                  THEN /\ Reply(req, 400, Error("Bad payload"))
                       /\ UNCHANGED <<workers, lock>>
                  ELSE /\ seq_employees + Cardinality(Busy("/register")) < MaxEmployees
                       /\ DbFree
                       /\ lock' = w
                       /\ workers' = [workers EXCEPT ![w] =
                            [Idle EXCEPT !.pc = "commit", !.req = req,
                                         !.name = name, !.role = role,
                                         !.rowid = NextRowid(seq_employees),
                                         !.ts = now_iso(clock)]]
                       /\ out' = NoResponse
  /\ UNCHANGED <<employees, time_entries, seq_employees, seq_time_entries, clock>>

RegisterCommit(w) ==
  /\ workers[w].pc = "commit"
  /\ workers[w].req.route = "/register"
  /\ employees' = Insert(employees,
       [id |-> workers[w].rowid, name |-> workers[w].name,
        role |-> workers[w].role, created_at |-> workers[w].ts])
  /\ seq_employees' = workers[w].rowid
  /\ lock' = (IF lock = w THEN 0 ELSE lock)
  /\ workers' = [workers EXCEPT ![w] = Idle]
  /\ Reply(workers[w].req, 201,
           [id |-> workers[w].rowid, name |-> workers[w].name, role |-> workers[w].role])
  /\ UNCHANGED <<time_entries, seq_time_entries, clock>>

register_employee(w, payloads) == RegisterInsert(w, payloads) \/ RegisterCommit(w)

(* ------------------- /clock-in ... /break-end -------------------------- *)
(* Faulty variant: the literal copied unchanged from clock_in. *)
EventTypeCopied(route) == "CLOCK_IN"

EventType(route) ==
  CASE route = "/clock-in" -> "CLOCK_IN"
    [] route = "/clock-out" -> "CLOCK_OUT"
    [] route = "/break-start" -> "BREAK_START"
    [] route = "/break-end" -> "BREAK_END"

Recorded(route) ==
  CASE route = "/clock-in" -> "Clock-in recorded"
    [] route = "/clock-out" -> "Clock-out recorded"
    [] route = "/break-start" -> "Break started"
    [] route = "/break-end" -> "Break ended"

(* Faulty variant: the WHERE clause left out of the lookup. *)
EmployeeFoundAny(employee_id) == employees # <<>>

(* SELECT id FROM employees WHERE id=? ; fetchone() *)
EmployeeFound(employee_id) ==
  \E i \in 1..Len(employees) : SqlEqInt(employees[i].id, employee_id)

(* Lines 94-104 of clock_in (and the same lines of the other three): the *)
(* payload is validated and the employee looked up.                      *)
EventLookup(w, route, payloads) ==
  /\ Free(w)
  /\ \E payload \in payloads :
       LET req == Post(route, payload)
           employee_id == get_json(payload).employee_id
       IN IF ~Truthy(employee_id)
          THEN /\ Reply(req, 400, Error("employee_id required"))
               /\ UNCHANGED workers
          ELSE IF ~Bindable(employee_id)
          THEN /\ Reply(req, 500, Error("ProgrammingError"))
               /\ UNCHANGED workers
          ELSE IF ~EmployeeFound(employee_id)
          THEN /\ Reply(req, 404, Error("Employee not found"))
               /\ UNCHANGED workers
          ELSE /\ seq_time_entries + Cardinality(BusyEvents) < MaxEntries
               /\ workers' = [workers EXCEPT ![w] =
                    [Idle EXCEPT !.pc = "insert", !.req = req,
                                 !.employee_id = employee_id]]
               /\ out' = NoResponse
  /\ UNCHANGED <<Store, clock>>

EventInsert(w, route) ==
  /\ workers[w].pc = "insert"
  /\ workers[w].req.route = route
  /\ DbFree
  /\ lock' = w
  /\ workers' = [workers EXCEPT ![w].pc = "commit",
                                ![w].rowid = NextRowid(seq_time_entries),
                                ![w].ts = now_iso(clock)]
  /\ out' = NoResponse
  /\ UNCHANGED <<employees, time_entries, seq_employees, seq_time_entries, clock>>

EventCommit(w, route) ==
  /\ workers[w].pc = "commit"
  /\ workers[w].req.route = route
  /\ time_entries' = Insert(time_entries,
       [id |-> workers[w].rowid, employee_id |-> SqlToInt(workers[w].employee_id),
        event_type |-> EventType(route), ts |-> workers[w].ts])
  /\ seq_time_entries' = workers[w].rowid
  /\ lock' = (IF lock = w THEN 0 ELSE lock)
  /\ workers' = [workers EXCEPT ![w] = Idle]
  /\ Reply(workers[w].req, 201, Message(Recorded(route)))
  /\ UNCHANGED <<employees, seq_employees, clock>>

Event(w, route, payloads) ==
  EventLookup(w, route, payloads) \/ EventInsert(w, route) \/ EventCommit(w, route)

clock_in(w, payloads) == Event(w, "/clock-in", payloads)
clock_out(w, payloads) == Event(w, "/clock-out", payloads)
break_start(w, payloads) == Event(w, "/break-start", payloads)
break_end(w, payloads) == Event(w, "/break-end", payloads)

(* ------------------------------ admin --------------------------------- *)
(* Faulty variant: the header compared by prefix. *)
require_admin_prefix(token) == token.t = "str" /\ startswith(ADMIN_TOKEN, token.v)

(* req.headers.get("X-ADMIN-TOKEN") == ADMIN_TOKEN *)
require_admin(token) == token.t = "str" /\ token.v = ADMIN_TOKEN

Remove(rows, i) == SubSeq(rows, 1, i - 1) \o SubSeq(rows, i + 1, Len(rows))

(* Faulty variant: ORDER BY id DESC. *)
RECURSIVE OrderByIdDesc(_)
OrderByIdDesc(rows) ==
  IF rows = <<>> THEN <<>>
  ELSE LET i == CHOOSE i \in 1..Len(rows) :
                  \A j \in 1..Len(rows) :
                     \/ rows[i].id > rows[j].id
                     \/ rows[i].id = rows[j].id /\ i <= j
       IN <<rows[i]>> \o OrderByIdDesc(Remove(rows, i))

(* ORDER BY id *)
RECURSIVE OrderById(_)
OrderById(rows) ==
  IF rows = <<>> THEN <<>>
  ELSE LET i == CHOOSE i \in 1..Len(rows) :
                  \A j \in 1..Len(rows) :
                     \/ rows[i].id < rows[j].id
                     \/ rows[i].id = rows[j].id /\ i <= j
       IN <<rows[i]>> \o OrderById(Remove(rows, i))

(* ORDER BY ts DESC : rows of equal ts come in an order SQL leaves open.  *)
OrderingsByTsDesc(rows) ==
  LET n == Len(rows)
      perms == {p \in [1..n -> 1..n] :
                  /\ \A i, j \in 1..n : i # j => p[i] # p[j]
                  /\ \A i \in 1..n : i < n => TextLeq(rows[p[i + 1]].ts, rows[p[i]].ts)}
  IN {[i \in 1..n |-> rows[p[i]]] : p \in perms}

(* The WHERE clause list_entries builds from its two query arguments.     *)
EntryMatches(row, employee_id, date) ==
  /\ Truthy(employee_id) => SqlEqInt(row.employee_id, employee_id)
  /\ Truthy(date) => Like(row.ts, date.v \o <<"%">>)

RECURSIVE Where(_, _, _)
Where(rows, employee_id, date) ==
  IF rows = <<>> THEN <<>>
  ELSE (IF EntryMatches(Head(rows), employee_id, date) THEN <<Head(rows)>> ELSE <<>>)
         \o Where(Tail(rows), employee_id, date)

list_employees(tokens) ==
  /\ \E token \in tokens :
       LET req == Get("/employees", token, Absent, Absent)
       IN IF ~require_admin(token)
          THEN Reply(req, 403, Error("Admin token required"))
          ELSE Reply(req, 200, OrderById(employees))
  /\ UNCHANGED <<Store, clock, workers>>

list_entries(tokens, ids, dates) ==
  /\ \E token \in tokens, employee_id \in ids, date \in dates :
       LET req == Get("/entries", token, employee_id, date)
       IN IF ~require_admin(token)
          THEN Reply(req, 403, Error("Admin token required"))
          ELSE \E rows \in OrderingsByTsDesc(Where(time_entries, employee_id, date)) :
                 Reply(req, 200, rows)
  /\ UNCHANGED <<Store, clock, workers>>

(* ------------------------------ time ---------------------------------- *)
Tick ==
  /\ clock < MaxClock
  /\ clock' = clock + 1
  /\ out' = NoResponse
  /\ UNCHANGED <<Store, workers>>

(* ------------------------------ /login -------------------------------- *)
UsernameValues ==
  {Absent, Null, JStr(<<>>), JStr(<<" ">>), JStr(<<"a","d","m","i","n">>),
   JStr(<<" ","a","d","m","i","n"," ">>), JStr(<<"\t","a","d","m","i","n">>),
   JStr(<<"A","d","m","i","n">>), JStr(<<"r","o","o","t">>),
   JStr(<<"a","d","m","i","n","1">>), JInt(7)}
PasswordValues ==
  {Absent, Null, JStr(<<>>), JStr(<<" ">>), JStr(<<"1","2","3","4">>),
   JStr(<<" ","1","2","3","4","\n">>), JStr(<<"1","2","3","4","5">>),
   JStr(<<"0","0","0","0">>), JStr(<<"1","2","3">>), JInt(1234)}
LoginPayloads ==
  {NoJson} \cup {Json([EmptyObject EXCEPT !.username = u, !.password = p]) :
                   u \in UsernameValues, p \in PasswordValues}

(* Faulty variant: `or` for `and` in the credential test. *)
login_status_either(username, password) ==
  IF username = <<>> \/ password = <<>> THEN 400
  ELSE IF username = <<"a","d","m","i","n">> \/ password = <<"1","2","3","4">> THEN 200
  ELSE 401

(* Lines 12-20 of myapp: the verdict on the two stripped fields.          *)
login_status(username, password) ==
  IF username = <<>> \/ password = <<>> THEN 400
  ELSE IF username = <<"a","d","m","i","n">> /\ password = <<"1","2","3","4">> THEN 200
  ELSE 401

login_body(status) ==
  CASE status = 400 -> Error("Missing username or password.")
    [] status = 200 -> Message("Access granted")
    [] status = 401 -> Error("Invalid credentials")

login ==
  /\ \E payload \in LoginPayloads :
       LET req == Post("/login", payload)
           data == get_json(payload)
           username_ == Or(data.username, JStr(<<>>))
           password_ == Or(data.password, JStr(<<>>))
       IN IF username_.t # "str" \/ password_.t # "str"
          THEN Reply(req, 500, Error("AttributeError"))
          ELSE LET status == login_status(strip(username_.v), strip(password_.v))
               IN Reply(req, status, login_body(status))
  /\ UNCHANGED <<Store, clock, workers>>

(* ------------------------------ systems -------------------------------- *)
(* The attendance application under concurrent requests.                  *)
Next ==
  \/ \E w \in Workers :
       \/ register_employee(w, RegisterFew)
       \/ clock_in(w, EventFew)
       \/ clock_out(w, EventFew)
       \/ break_start(w, EventFew)
       \/ break_end(w, EventFew)
  \/ list_employees(TokenValues)
  \/ list_entries(TokenFew, QueryIdFew, DateFew)
  \/ Tick

Spec == Init /\ [][Next]_vars

(* Registration and the roster, over every payload and token modelled.   *)
NextRegister ==
  \/ \E w \in Workers : register_employee(w, RegisterPayloads)
  \/ list_employees(TokenValues)
  \/ Tick

SpecRegister == Init /\ [][NextRegister]_vars

(* The login application: a store of its own it never touches.           *)
NextLogin == login

SpecLogin == Init /\ [][NextLogin]_vars

(* ------------------------------ properties ---------------------------- *)
Ids(rows) == {rows[i].id : i \in 1..Len(rows)}
IsPrefix(a, b) == Len(a) <= Len(b) /\ SubSeq(b, 1, Len(a)) = a
Replied == out.status # 0
Body(resp) == get_json(resp.req.payload)
Timestamps == {now_iso(t) : t \in 0..clock}

(* The two halves of C1: the reference holds now, and held at insertion. *)
C1_Referenced ==
  \A i \in 1..Len(time_entries) : time_entries[i].employee_id \in Ids(employees)

C1_AtInsert ==
  \A i \in 1..Len(time_entries') :
     i > Len(time_entries) => time_entries'[i].employee_id \in Ids(employees)

(* C1: every TimeEntry row carries the id of an Employee row, and that    *)
(* Employee row was already in the table at the step that inserted the    *)
(* TimeEntry, under every interleaving of the five writing handlers.      *)
C1_EntryReferencesEmployee == [](C1_Referenced) /\ [][C1_AtInsert]_vars

C1_Witness ==
  /\ Len(time_entries) = 2
  /\ time_entries[1].employee_id = 2
  /\ time_entries[2].employee_id = 1

(* C2: an event request whose body supplies an employee_id that is not    *)
(* the id of an existing Employee is answered 404 and leaves time_entries *)
(* unchanged.                                                             *)
C2_UnknownIs404 ==
  [][(/\ out'.status # 0
      /\ out'.req.route \in EVENT_ROUTES
      /\ Body(out').employee_id.t # "absent"
      /\ ~EmployeeFound(Body(out').employee_id))
     => (out'.status = 404 /\ time_entries' = time_entries)]_vars

(* The parts of C3: the literal of each handler, rows per employee and    *)
(* type, the answers, and the effect of a step.                           *)
C3_Literal(route) ==
  CASE route = "/clock-in" -> "CLOCK_IN"
    [] route = "/clock-out" -> "CLOCK_OUT"
    [] route = "/break-start" -> "BREAK_START"
    [] route = "/break-end" -> "BREAK_END"

C3_Count(rows, employee_id, type) ==
  Cardinality({i \in 1..Len(rows) :
                 /\ SqlEqInt(rows[i].employee_id, employee_id)
                 /\ rows[i].event_type = type})

C3_Answered ==
  /\ (Replied /\ out.req.route \in EVENT_ROUTES /\ EmployeeFound(Body(out).employee_id))
       => out.status = 201
  /\ (out.req.route = "/entries" /\ out.status = 200
        /\ Truthy(out.req.employee_id) /\ ~Truthy(out.req.date))
       => \A type \in EVENT_TYPES :
            C3_Count(out.body, out.req.employee_id, type)
              = C3_Count(time_entries, out.req.employee_id, type)

C3_OneRow ==
  LET added == out'.status = 201 /\ out'.req.route \in EVENT_ROUTES
      row == time_entries'[Len(time_entries')]
  IN /\ added <=> time_entries' # time_entries
     /\ added =>
          /\ Len(time_entries') = Len(time_entries) + 1
          /\ IsPrefix(time_entries, time_entries')
          /\ row.employee_id \in Ids(employees)
          /\ SqlEqInt(row.employee_id, Body(out').employee_id)
          /\ row.event_type = C3_Literal(out'.req.route)
          /\ row.ts \in Timestamps
     /\ \A w \in Workers :
          (workers[w].pc \in {"insert", "commit"} /\ workers[w].req.route \in EVENT_ROUTES)
            => \/ /\ workers'[w].pc \in {"insert", "commit"}
                  /\ workers'[w].req = workers[w].req
               \/ /\ workers'[w] = Idle
                  /\ out'.req = workers[w].req
                  /\ out'.status = 201

(* C3: an event request naming an existing Employee is answered 201       *)
(* whatever rows the employee already has; the answer comes with exactly  *)
(* one new TimeEntry row holding that employee's id, the literal event    *)
(* type of the handler and a server timestamp; an authorised /entries     *)
(* query for an employee returns one row per event recorded for it.       *)
C3_ValidEventRecorded == [](C3_Answered) /\ [][C3_OneRow]_vars

C3_Witness ==
  /\ out.status = 201
  /\ out.req.route = "/clock-out"
  /\ Len(time_entries) = 2
  /\ time_entries[1].employee_id = time_entries[2].employee_id
  /\ time_entries[1].event_type = "CLOCK_OUT"
  /\ time_entries[2].event_type = "CLOCK_OUT"

(* The payloads C4 speaks of. *)
C4_NameMissing(name) ==
  \/ name.t \in {"absent", "null"}
  \/ name.t = "str" /\ strip(name.v) = <<>>

C4_RoleInvalid(role) ==
  /\ role.t # "absent"
  /\ ~(role.t = "str" /\ lower(role.v) \in ROLES)

(* C4: a /register request whose name is absent or empty after trimming, *)
(* or whose role is supplied and is not employee, manager or admin in any *)
(* letter case, is answered 400 and creates no Employee row.              *)
C4_BadPayloadIs400 ==
  [][(/\ out'.status # 0
      /\ out'.req.route = "/register"
      /\ (C4_NameMissing(Body(out').name) \/ C4_RoleInvalid(Body(out').role)))
     => (out'.status = 400 /\ employees' = employees)]_vars

(* The parts of C5: the payloads it speaks of, the answer, the ids, and   *)
(* the effect of a step.                                                  *)
C5_Good(data) ==
  /\ data.name.t = "str" /\ strip(data.name.v) # <<>>
  /\ \/ data.role.t = "absent"
     \/ data.role.t = "str" /\ lower(data.role.v) \in ROLES

C5_Role(role) ==
  IF role.t = "absent" THEN <<"e","m","p","l","o","y","e","e">> ELSE lower(role.v)

C5_Answered ==
  (Replied /\ out.req.route = "/register" /\ C5_Good(Body(out)))
    => /\ out.status = 201
       /\ out.body.name = strip(Body(out).name.v)
       /\ out.body.role = C5_Role(Body(out).role)
       /\ out.body.id \in Nat \ {0}
       /\ employees # <<>>
       /\ LET row == employees[Len(employees)]
          IN /\ row.id = out.body.id
             /\ row.name = out.body.name
             /\ row.role = out.body.role
             /\ row.created_at \in Timestamps

C5_Writing == {w \in Workers : workers[w].pc = "commit" /\ workers[w].req.route = "/register"}

C5_Distinct ==
  /\ \A i, j \in 1..Len(employees) : i # j => employees[i].id # employees[j].id
  /\ \A w \in C5_Writing : workers[w].rowid \notin Ids(employees)
  /\ \A v, w \in C5_Writing : v # w => workers[v].rowid # workers[w].rowid

C5_OneRow ==
  LET added == out'.status = 201 /\ out'.req.route = "/register"
  IN /\ added <=> employees' # employees
     /\ added => /\ Len(employees') = Len(employees) + 1
                 /\ IsPrefix(employees, employees')
                 /\ out'.body.id \notin Ids(employees)

(* C5: a /register request with a non-empty trimmed name and a role that  *)
(* is absent or one of the three in any letter case is answered 201 with  *)
(* the trimmed name, the role in lower case (employee when absent) and a  *)
(* positive id; the answer comes with exactly one new Employee row, and   *)
(* no two rows, committed or being written, share an id.                  *)
C5_Registered == [](C5_Answered /\ C5_Distinct) /\ [][C5_OneRow]_vars

C5_Witness ==
  /\ out.status = 201
  /\ out.req.route = "/register"
  /\ Body(out).name = JStr(<<" ">> \o Al \o <<" ">>)
  /\ Body(out).role = JStr(<<"M","a","n","a","g","e","r">>)
  /\ out.body.id = 2
  /\ employees[1].role = <<"e","m","p","l","o","y","e","e">>

(* The parts of C6: the gate and the frame. *)
C6_Listing(resp) == resp.status # 0 /\ resp.req.route \in {"/employees", "/entries"}

C6_Gated ==
  C6_Listing(out) =>
    IF out.req.token.t = "str" /\ out.req.token.v = ADMIN_TOKEN
    THEN out.status = 200
    ELSE out.status = 403 /\ out.body = Error("Admin token required")

C6_ReadOnly ==
  C6_Listing(out') =>
    UNCHANGED <<employees, time_entries, seq_employees, seq_time_entries>>

(* C6: the two listings answer 200 exactly when the X-ADMIN-TOKEN header  *)
(* equals the configured token; otherwise they answer 403 with nothing    *)
(* but the error message; either way the store is left as it was.         *)
C6_AdminOnly == [](C6_Gated) /\ [][C6_ReadOnly]_vars

C6_Witness ==
  /\ out.status = 403
  /\ out.req.route = "/entries"
  /\ out.req.token.t = "str"
  /\ time_entries # <<>>

(* The rows C7 expects: id equal, ts starting with the date. *)
C7_Selected(row, employee_id, date) ==
  /\ Truthy(employee_id) => SqlEqInt(row.employee_id, employee_id)
  /\ Truthy(date) => startswith(row.ts, date.v)

(* C7: an authorised /entries answer holds exactly the rows whose         *)
(* employee_id equals the one given and whose ts starts with the date     *)
(* given, in non-increasing ts order.                                     *)
C7_PrefixFilter ==
  (out.req.route = "/entries" /\ out.status = 200)
    => /\ {out.body[i] : i \in 1..Len(out.body)}
            = {time_entries[i] : i \in {k \in 1..Len(time_entries) :
                   C7_Selected(time_entries[k], out.req.employee_id, out.req.date)}}
       /\ \A i, j \in 1..Len(out.body) : i # j => out.body[i] # out.body[j]
       /\ \A i \in 1..Len(out.body) :
            i < Len(out.body) => TextLeq(out.body[i + 1].ts, out.body[i].ts)

(* The parts of C8: the answer, and how the table grows. *)
C8_Roster ==
  (Replied /\ out.req.route = "/employees"
     /\ out.req.token.t = "str" /\ out.req.token.v = ADMIN_TOKEN)
    => /\ out.status = 200
       /\ out.body = employees
       /\ \A i, j \in 1..Len(out.body) : i < j => out.body[i].id < out.body[j].id

C8_Committed ==
  employees' # employees
    => /\ out'.status = 201
       /\ out'.req.route = "/register"
       /\ employees' = Append(employees,
            [id |-> out'.body.id, name |-> out'.body.name, role |-> out'.body.role,
             created_at |-> employees'[Len(employees')].created_at])

(* C8: an authorised /employees answer is 200 with the Employee rows of  *)
(* all registrations answered 201 so far, each once, in the order their  *)
(* registrations were committed, which is strictly ascending id order.    *)
C8_RosterInCommitOrder == [](C8_Roster) /\ [][C8_Committed]_vars

C8_Witness ==
  /\ out.status = 200
  /\ out.req.route = "/employees"
  /\ Len(out.body) = 2
  /\ out.body[1].role # out.body[2].role

(* The step relation of C9. *)
C9_Kept ==
  /\ IsPrefix(employees, employees')
  /\ IsPrefix(time_entries, time_entries')
  /\ (out'.status \in {400, 403, 404} \/ C6_Listing(out'))
       => /\ employees' = employees
          /\ time_entries' = time_entries
          /\ workers' = workers

(* C9: no step removes or alters a stored row; a listing and a request    *)
(* answered 400, 403 or 404 leave both tables as they were, that answer   *)
(* being the only step of the request.                                    *)
C9_AppendOnly == [][C9_Kept]_vars

C9_Witness ==
  /\ out.status = 404
  /\ employees # <<>>
  /\ time_entries # <<>>
  /\ \E w \in Workers : workers[w].pc = "commit"

(* The fields C10 speaks of: text, or nothing. *)
C10_Textual(x) == x.t \in {"absent", "null", "str"}
C10_Trimmed(x) == IF x.t = "str" THEN strip(x.v) ELSE <<>>

====
